---- MODULE Spec2Model ----
(***************************************************************************)
(* Model of the per-identity message admission controller of the Telegram  *)
(* client: the module-level map userRateLimits, the function               *)
(* isUserRateLimited and the bot's "message" handler that calls it.         *)
(*                                                                         *)
(* The handler is async: it runs synchronously from the arrival of the     *)
(* update through the call of isUserRateLimited up to its first await, and *)
(* other handlers may run between two of its awaits.  Each await is one    *)
(* position of pc.                                                         *)
(***************************************************************************)
EXTENDS Integers, Sequences, FiniteSets, TLC

\* ---------------------------------------------------------------- bounds
\* The clock of the small configurations reads 0..MaxNow.
MaxNow == 2
\* MAX_MESSAGES, TIMEFRAME and COOLDOWN of the small configurations are at
\* most MaxCfg.
MaxCfg == 2
\* A run under a small configuration makes at most MaxChecks calls of
\* isUserRateLimited.
MaxChecks == 4
\* A run under the strict profile makes at most ProfileChecks calls.
ProfileChecks == 7

\* A run of the cooldown scenario under the strict profile makes at most
\* ScenarioChecks calls.
ScenarioChecks == 8

\* ------------------------------------------------------ program constants
StrictMaxMessages == 5
PermissiveMaxMessages == 100
Timeframe == 60000
Cooldown == 300000
PermissiveTimeframe == 60000
PermissiveCooldown == 300000

Users == {"u1", "u2"}
ProfileUsers == {"u1"}
\* ctx.from?.id of an update without a sender
Undefined == "undefined"
\* Message handlers that may be in flight at once.
Handlers == {"h1", "h2"}
ProfileHandlers == {"h1"}

\* Outcomes of an awaited call of the Telegram API or of the message manager:
\* it resolves, it rejects with response.error_code 403, or it rejects with
\* another error.
Outcomes == {"ok", "err403", "err"}

\* RATE_LIMITS of the strict copy of the client
StrictProfile ==
    [MAX_MESSAGES |-> StrictMaxMessages, TIMEFRAME |-> Timeframe, COOLDOWN |-> Cooldown]

\* RATE_LIMITS of the permissive copy
PermissiveProfile ==
    [MAX_MESSAGES |-> PermissiveMaxMessages, TIMEFRAME |-> PermissiveTimeframe,
     COOLDOWN |-> PermissiveCooldown]

\* Valid configurations (maxEvents >= 1, timeframe > 0, cooldown >= 0),
\* scaled down so that the clock can walk through windows and cooldowns.
Configs ==
    [MAX_MESSAGES : 1..MaxCfg, TIMEFRAME : 1..MaxCfg, COOLDOWN : 0..MaxCfg]

\* Readings of Date.now() under the strict profile: a burst of five, and
\* instants just inside, on and just beyond the edge of the burst's window.
ProfileTimes == {0, 10, 20, 30, 40, 59000, 60000, 60010, 61000}

\* Readings of Date.now() for a burst in successive milliseconds, the middle
\* of the cooldown it arms, and the end of that cooldown.
ScenarioTimes == {0, 1, 2, 3, 4, 5, 150000, 300005, 300006}

VARIABLES
    RATE_LIMITS,     \* the configuration record, fixed after start
    budget,          \* calls of isUserRateLimited the run may still make
    tgTrader,        \* this.tgTrader, fixed after construction
    userRateLimits,  \* Map<string, {timestamps, cooldownUntil}>
    now,             \* the wall clock read by Date.now()
    pc,              \* position of each in-flight message handler
    verdict,         \* per handler, what isUserRateLimited returned for the
                     \* message it is handling ("none" when it handles none)
    caught,          \* per handler, the error its catch block holds
                     \* ("none" outside the catch block)
    hist             \* per identity, the calls of isUserRateLimited so far:
                     \* the time read and the value returned

vars == <<RATE_LIMITS, budget, tgTrader, userRateLimits, now, pc, verdict, caught, hist>>

\* ------------------------------------------------------ isUserRateLimited
\* Variant: the first message is not recorded.
FirstMessage_unrecorded(t) == [timestamps |-> <<>>, cooldownUntil |-> 0]

\* userRateLimits.set(userId, { timestamps: [now], cooldownUntil: 0 })
FirstMessage(t) == [timestamps |-> <<t>>, cooldownUntil |-> 0]

\* Variant: the comparison is inverted.
InCooldown_inverted(userRateData, t) == userRateData.cooldownUntil < t

\* Variant: the instant cooldownUntil itself still belongs to the cooldown.
InCooldown_inclusive(userRateData, t) == userRateData.cooldownUntil >= t

\* userRateData.cooldownUntil > now
InCooldown(userRateData, t) == userRateData.cooldownUntil > t

\* Variant: an entry exactly TIMEFRAME old is dropped.
FilterTimestamps_strict(cfg, timestamps, t) ==
    SelectSeq(timestamps, LAMBDA ts : t - ts < cfg.TIMEFRAME)

\* Variant: the difference is taken the wrong way round.
FilterTimestamps_reversed(cfg, timestamps, t) ==
    SelectSeq(timestamps, LAMBDA ts : ts - t <= cfg.TIMEFRAME)

\* timestamps.filter(ts => now - ts <= RATE_LIMITS.TIMEFRAME)
FilterTimestamps(cfg, timestamps, t) ==
    SelectSeq(timestamps, LAMBDA ts : t - ts <= cfg.TIMEFRAME)

\* Variant: the trigger is one event late.
ExceedsLimit_late(cfg, timestamps) == Len(timestamps) > cfg.MAX_MESSAGES

\* Variant: the trigger is one event early.
ExceedsLimit_early(cfg, timestamps) == Len(timestamps) + 1 >= cfg.MAX_MESSAGES

\* userRateData.timestamps.length >= RATE_LIMITS.MAX_MESSAGES
ExceedsLimit(cfg, timestamps) == Len(timestamps) >= cfg.MAX_MESSAGES

\* Variant: the cooldown lasts TIMEFRAME instead of COOLDOWN.
CooldownEnd_timeframe(cfg, t) == t + cfg.TIMEFRAME

\* now + RATE_LIMITS.COOLDOWN
CooldownEnd(cfg, t) == t + cfg.COOLDOWN

\* Variant: the check that starts the cooldown is recorded as well.
TriggerRecord_recordsReject(cfg, kept, t) ==
    [timestamps |-> Append(kept, t), cooldownUntil |-> CooldownEnd(cfg, t)]

\* userRateData.cooldownUntil = now + RATE_LIMITS.COOLDOWN, on the pruned list
TriggerRecord(cfg, kept, t) ==
    [timestamps |-> kept, cooldownUntil |-> CooldownEnd(cfg, t)]

\* Variant: the new timestamp is put in front of the list (unshift).
AdmitRecord_unshift(userRateData, kept, t) ==
    [timestamps |-> <<t>> \o kept, cooldownUntil |-> userRateData.cooldownUntil]

\* Variant: an admitted check resets the cooldown mark.
AdmitRecord_clearsCooldown(userRateData, kept, t) ==
    [timestamps |-> Append(kept, t), cooldownUntil |-> 0]

\* userRateData.timestamps.push(now), on the pruned list
AdmitRecord(userRateData, kept, t) ==
    [timestamps |-> Append(kept, t), cooldownUntil |-> userRateData.cooldownUntil]

\* Variant: every identity is looked up and stored under one key.
isUserRateLimited_sharedKey(cfg, limits, userId, t) ==
    LET key == "u1" IN
    IF key \notin DOMAIN limits
    THEN [limits |-> (key :> FirstMessage(t)) @@ limits, ret |-> FALSE]
    ELSE LET userRateData == limits[key] IN
         IF InCooldown(userRateData, t)
         THEN [limits |-> limits, ret |-> TRUE]
         ELSE LET kept == FilterTimestamps(cfg, userRateData.timestamps, t) IN
              IF ExceedsLimit(cfg, kept)
              THEN [limits |-> [limits EXCEPT ![key] = TriggerRecord(cfg, kept, t)],
                    ret |-> TRUE]
              ELSE [limits |-> [limits EXCEPT
                                  ![key] = AdmitRecord(userRateData, kept, t)],
                    ret |-> FALSE]

\* The map after the call and the value returned (TRUE: rate-limited).
isUserRateLimited(cfg, limits, userId, t) ==
    IF userId \notin DOMAIN limits
    THEN [limits |-> (userId :> FirstMessage(t)) @@ limits, ret |-> FALSE]
    ELSE LET userRateData == limits[userId] IN
         IF InCooldown(userRateData, t)
         THEN [limits |-> limits, ret |-> TRUE]
         ELSE LET kept == FilterTimestamps(cfg, userRateData.timestamps, t) IN
              IF ExceedsLimit(cfg, kept)
              THEN [limits |-> [limits EXCEPT ![userId] = TriggerRecord(cfg, kept, t)],
                    ret |-> TRUE]
              ELSE [limits |-> [limits EXCEPT
                                  ![userId] = AdmitRecord(userRateData, kept, t)],
                    ret |-> FALSE]

\* Variant of the permissive copy: an entry exactly TIMEFRAME old is dropped.
isUserRateLimitedPermissive_strictFilter(cfg, limits, roomId, t) ==
    IF roomId \notin DOMAIN limits
    THEN [limits |-> (roomId :> [timestamps |-> <<t>>, cooldownUntil |-> 0]) @@ limits,
          ret |-> FALSE]
    ELSE IF limits[roomId].cooldownUntil > t
    THEN [limits |-> limits, ret |-> TRUE]
    ELSE LET filtered == SelectSeq(limits[roomId].timestamps,
                                   LAMBDA ts : t - ts < cfg.TIMEFRAME)
         IN IF Len(filtered) >= cfg.MAX_MESSAGES
            THEN [limits |-> [limits EXCEPT ![roomId] =
                                 [timestamps |-> filtered,
                                  cooldownUntil |-> t + cfg.COOLDOWN]],
                  ret |-> TRUE]
            ELSE [limits |-> [limits EXCEPT ![roomId] =
                                 [timestamps |-> Append(filtered, t),
                                  cooldownUntil |-> @.cooldownUntil]],
                  ret |-> FALSE]

\* isUserRateLimited of the permissive copy (telegramClient.ts), statement by
\* statement: the first-message record, the cooldown test, the filter, the
\* limit test that starts the cooldown, the push.
isUserRateLimitedPermissive(cfg, limits, roomId, t) ==
    IF roomId \notin DOMAIN limits
    THEN [limits |-> (roomId :> [timestamps |-> <<t>>, cooldownUntil |-> 0]) @@ limits,
          ret |-> FALSE]
    ELSE IF limits[roomId].cooldownUntil > t
    THEN [limits |-> limits, ret |-> TRUE]
    ELSE LET filtered == SelectSeq(limits[roomId].timestamps,
                                   LAMBDA ts : t - ts <= cfg.TIMEFRAME)
         IN IF Len(filtered) >= cfg.MAX_MESSAGES
            THEN [limits |-> [limits EXCEPT ![roomId] =
                                 [timestamps |-> filtered,
                                  cooldownUntil |-> t + cfg.COOLDOWN]],
                  ret |-> TRUE]
            ELSE [limits |-> [limits EXCEPT ![roomId] =
                                 [timestamps |-> Append(filtered, t),
                                  cooldownUntil |-> @.cooldownUntil]],
                  ret |-> FALSE]

\* ------------------------------------------------------------------ state
InitCommon ==
    /\ tgTrader \in BOOLEAN
    /\ userRateLimits = <<>>
    /\ now = 0
    /\ pc = [h \in Handlers |-> "idle"]
    /\ verdict = [h \in Handlers |-> "none"]
    /\ caught = [h \in Handlers |-> "none"]
    /\ hist = [u \in Users |-> <<>>]

Init == RATE_LIMITS \in Configs /\ budget = MaxChecks /\ InitCommon

InitProfile == RATE_LIMITS = StrictProfile /\ budget = ProfileChecks /\ InitCommon

\* A run that goes on for ever: no budget of calls.
InitLive == RATE_LIMITS \in Configs /\ budget = 0 /\ InitCommon

InitScenario == RATE_LIMITS = StrictProfile /\ budget = ScenarioChecks /\ InitCommon

\* ---------------------------------------------------------------- actions
\* Date.now() moves on.
Tick ==
    /\ now < MaxNow
    /\ now' = now + 1
    /\ UNCHANGED <<RATE_LIMITS, budget, tgTrader, userRateLimits, pc, verdict, caught, hist>>

TickProfile ==
    /\ \E t \in ProfileTimes : t > now /\ now' = t
    /\ UNCHANGED <<RATE_LIMITS, budget, tgTrader, userRateLimits, pc, verdict, caught, hist>>

\* The limiter only compares differences of times (now - ts, cooldownUntil
\* against now), so a run that goes on for ever is kept finite by moving the
\* epoch: once the clock reads MaxNow, a millisecond that passes lowers every
\* stored instant by one instead of raising the clock.  Instants at Oldest or
\* before are older than every TIMEFRAME and every COOLDOWN and stay there.
Oldest == MaxNow - MaxCfg - 1

Aged(t) == IF t - 1 < Oldest THEN Oldest ELSE t - 1

TickLive ==
    /\ IF now < MaxNow
       THEN /\ now' = now + 1
            /\ UNCHANGED <<userRateLimits, hist>>
       ELSE /\ now' = now
            /\ userRateLimits' =
                  [u \in DOMAIN userRateLimits |->
                      [timestamps |->
                          [i \in 1..Len(userRateLimits[u].timestamps) |->
                              Aged(userRateLimits[u].timestamps[i])],
                       cooldownUntil |-> Aged(userRateLimits[u].cooldownUntil)]]
            /\ hist' = [u \in Users |->
                          [i \in 1..Len(hist[u]) |->
                              [now |-> Aged(hist[u][i].now),
                               limited |-> hist[u][i].limited]]]
    /\ UNCHANGED <<RATE_LIMITS, budget, tgTrader, pc, verdict, caught>>

TickScenario ==
    /\ \E t \in ScenarioTimes : t > now /\ now' = t
    /\ UNCHANGED <<RATE_LIMITS, budget, tgTrader, userRateLimits, pc, verdict, caught, hist>>

\* A rejected message is answered and dropped without the return of line 125.
AfterCheck_fallsThrough(limited) == "authorize"

\* if (isUserRateLimited(userId)) { ... await ctx.reply(...); return; }: the
\* await the handler reaches first, given what the check returned.
AfterCheck(limited) == IF limited THEN "reply" ELSE "authorize"

\* bot.on("message"): the synchronous start of the handler, up to its first
\* await.
OnMessage(h, userId) ==
    /\ pc[h] = "idle"
    /\ IF userId = Undefined
       THEN UNCHANGED <<userRateLimits, pc, verdict, caught, hist, budget>>
       ELSE /\ budget > 0
            /\ budget' = budget - 1
            /\ LET r == isUserRateLimited(RATE_LIMITS, userRateLimits, userId, now) IN
               /\ userRateLimits' = r.limits
               /\ hist' = [hist EXCEPT ![userId] =
                              Append(@, [now |-> now, limited |-> r.ret])]
               /\ pc' = [pc EXCEPT ![h] = AfterCheck(r.ret)]
               /\ verdict' = [verdict EXCEPT ![h] = IF r.ret THEN "reject" ELSE "admit"]
               /\ caught' = [caught EXCEPT ![h] = "none"]
    /\ UNCHANGED <<RATE_LIMITS, tgTrader, now>>

\* The same start of the handler in a run that goes on for ever: only the
\* latest call of each identity is kept in hist.
OnMessageLive(h, userId) ==
    /\ pc[h] = "idle"
    /\ LET r == isUserRateLimited(RATE_LIMITS, userRateLimits, userId, now) IN
       /\ userRateLimits' = r.limits
       /\ hist' = [hist EXCEPT ![userId] = <<[now |-> now, limited |-> r.ret]>>]
       /\ pc' = [pc EXCEPT ![h] = AfterCheck(r.ret)]
       /\ verdict' = [verdict EXCEPT ![h] = IF r.ret THEN "reject" ELSE "admit"]
       /\ caught' = [caught EXCEPT ![h] = "none"]
    /\ UNCHANGED <<RATE_LIMITS, budget, tgTrader, now>>

\* The catch block of the handler (lines 149-157) after an awaited call of
\* the try block settled with this outcome: where the handler goes next.
AfterSettled(outcome) == IF outcome = "err" THEN "errorReply" ELSE "idle"

\* The handler's locals at its next position: none once it has returned.
Returned(next, value) == IF next = "idle" THEN "none" ELSE value

\* await ctx.reply("You're sending messages too quickly...") settles.
ReplySettled(h, outcome) ==
    /\ pc[h] = "reply"
    /\ pc' = [pc EXCEPT ![h] = AfterSettled(outcome)]
    /\ verdict' = [verdict EXCEPT ![h] = Returned(AfterSettled(outcome), @)]
    /\ caught' = [caught EXCEPT ![h] = Returned(AfterSettled(outcome), outcome)]
    /\ UNCHANGED <<RATE_LIMITS, budget, tgTrader, userRateLimits, now, hist>>

\* await this.isGroupAuthorized(ctx) resolves to true.
Authorized(h) ==
    /\ pc[h] = "authorize"
    /\ pc' = [pc EXCEPT ![h] = IF tgTrader THEN "recommender" ELSE "handleMessage"]
    /\ UNCHANGED <<RATE_LIMITS, budget, tgTrader, userRateLimits, now, verdict, caught, hist>>

\* await getOrCreateRecommenderInBe(...) settles; its error is caught by the
\* inner try and only logged.
RecommenderSettled(h) ==
    /\ pc[h] = "recommender"
    /\ pc' = [pc EXCEPT ![h] = "handleMessage"]
    /\ UNCHANGED <<RATE_LIMITS, budget, tgTrader, userRateLimits, now, verdict, caught, hist>>

\* await this.messageManager.handleMessage(ctx) settles.
HandleMessageSettled(h, outcome) ==
    /\ pc[h] = "handleMessage"
    /\ pc' = [pc EXCEPT ![h] = AfterSettled(outcome)]
    /\ verdict' = [verdict EXCEPT ![h] = Returned(AfterSettled(outcome), @)]
    /\ caught' = [caught EXCEPT ![h] = Returned(AfterSettled(outcome), outcome)]
    /\ UNCHANGED <<RATE_LIMITS, budget, tgTrader, userRateLimits, now, hist>>

\* The fallback reply without its inner try: its error leaves the handler.
AfterErrorReply_rethrows(outcome) == IF outcome = "ok" THEN "idle" ELSE "thrown"

\* Where the handler goes when the fallback reply settled: its error is
\* caught by the inner try and only logged.
AfterErrorReply(outcome) == "idle"

\* await ctx.reply("An error occurred...") settles.
ErrorReplySettled(h, outcome) ==
    /\ pc[h] = "errorReply"
    /\ pc' = [pc EXCEPT ![h] = AfterErrorReply(outcome)]
    /\ verdict' = [verdict EXCEPT ![h] = Returned(AfterErrorReply(outcome), @)]
    /\ caught' = [caught EXCEPT ![h] = Returned(AfterErrorReply(outcome), @)]
    /\ UNCHANGED <<RATE_LIMITS, budget, tgTrader, userRateLimits, now, hist>>

HandlerStep(h) ==
    \/ \E outcome \in Outcomes : ReplySettled(h, outcome)
    \/ Authorized(h)
    \/ RecommenderSettled(h)
    \/ \E outcome \in Outcomes : HandleMessageSettled(h, outcome)
    \/ \E outcome \in Outcomes : ErrorReplySettled(h, outcome)

Next ==
    \/ Tick
    \/ \E h \in Handlers, userId \in Users \cup {Undefined} : OnMessage(h, userId)
    \/ \E h \in Handlers : HandlerStep(h)

NextProfile ==
    \/ TickProfile
    \/ \E h \in ProfileHandlers, userId \in ProfileUsers \cup {Undefined} : OnMessage(h, userId)
    \/ \E h \in ProfileHandlers : HandlerStep(h)

NextScenario ==
    \/ TickScenario
    \/ \E h \in ProfileHandlers, userId \in ProfileUsers \cup {Undefined} : OnMessage(h, userId)
    \/ \E h \in ProfileHandlers : HandlerStep(h)

NextLive ==
    \/ TickLive
    \/ \E h \in ProfileHandlers, userId \in ProfileUsers : OnMessageLive(h, userId)
    \/ \E h \in ProfileHandlers : HandlerStep(h)

Spec == Init /\ [][Next]_vars

\* Time keeps advancing, the identity keeps sending messages, and every
\* awaited call of a handler settles.
SpecLive ==
    /\ InitLive
    /\ [][NextLive]_vars
    /\ WF_vars(TickLive)
    /\ \A u \in ProfileUsers : SF_vars(\E h \in ProfileHandlers : OnMessageLive(h, u))
    /\ \A h \in ProfileHandlers : WF_vars(HandlerStep(h))

SpecScenario == InitScenario /\ [][NextScenario]_vars

SpecProfile == InitProfile /\ [][NextProfile]_vars

TypeOK ==
    /\ RATE_LIMITS \in Configs \cup {StrictProfile}
    /\ DOMAIN userRateLimits \subseteq Users
    /\ now \in Nat

\* ------------------------------------------------- vocabulary of the claims
Last(s) == s[Len(s)]

\* This step is a call of isUserRateLimited(u).
Checked(u) == Len(hist'[u]) = Len(hist[u]) + 1

\* The value that call returned.
Rejected(u) == Last(hist'[u]).limited

Tracked(u) == u \in DOMAIN userRateLimits

\* The identity is tracked and its cooldown is active at the current time.
CoolingDown(u) == Tracked(u) /\ now < userRateLimits[u].cooldownUntil

\* The admitted calls of an identity, oldest first.
Admits(u) == SelectSeq(hist[u], LAMBDA e : ~e.limited)

\* The admitted events of u that a check at time t finds inside its window,
\* counted from the record of calls and not from the limiter's own list.
AdmitsInWindow(u, t) ==
    Cardinality({i \in 1..Len(hist[u]) :
                    ~hist[u][i].limited /\ t - hist[u][i].now <= RATE_LIMITS.TIMEFRAME})

InFlight == {h \in Handlers : pc[h] # "idle"}

\* ------------------------------------------------------------------ claims
\* C1: for every configuration and every interleaving of the handlers, no
\* identity has more than MAX_MESSAGES admitted checks whose times lie in one
\* interval of length TIMEFRAME: any MAX_MESSAGES + 1 consecutive admitted
\* checks of an identity span more than TIMEFRAME.
C1_WindowBudget ==
    \A u \in Users :
        \A i \in 1..Len(Admits(u)) :
            i + RATE_LIMITS.MAX_MESSAGES <= Len(Admits(u)) =>
                Admits(u)[i + RATE_LIMITS.MAX_MESSAGES].now - Admits(u)[i].now
                    > RATE_LIMITS.TIMEFRAME

\* An identity was admitted more than MAX_MESSAGES times (its window slid),
\* was also rejected, and two handlers are in flight at once.
C1_Witness ==
    /\ Cardinality(InFlight) = 2
    /\ \E u \in Users :
        /\ Len(Admits(u)) > RATE_LIMITS.MAX_MESSAGES
        /\ Len(Admits(u)) < Len(hist[u])

\* C2: a check of a tracked identity with no active cooldown that finds
\* MAX_MESSAGES admitted checks inside its window returns Reject and sets
\* cooldownUntil to its own now + COOLDOWN; one that finds fewer (the
\* MAX_MESSAGES-th of a burst included) is admitted.
C2_TriggerOnExcess ==
    [][\A u \in Users :
          (Checked(u) /\ Tracked(u) /\ ~CoolingDown(u)) =>
              LET n == AdmitsInWindow(u, now) IN
              /\ n >= RATE_LIMITS.MAX_MESSAGES =>
                    /\ Rejected(u)
                    /\ userRateLimits'[u].cooldownUntil = now + RATE_LIMITS.COOLDOWN
              /\ n < RATE_LIMITS.MAX_MESSAGES => ~Rejected(u)]_vars

\* The first MAX_MESSAGES + 1 checks of an identity lie in one window, the
\* first MAX_MESSAGES (at least two) were admitted, the last one rejected
\* at a time after 0, and the cooldown runs from that time.
C2_Witness ==
    \E u \in Users :
        LET m == RATE_LIMITS.MAX_MESSAGES IN
        /\ m >= 2
        /\ Len(hist[u]) = m + 1
        /\ \A i \in 1..m : ~hist[u][i].limited
        /\ hist[u][m + 1].limited
        /\ hist[u][m + 1].now > 0
        /\ RATE_LIMITS.COOLDOWN > 0
        /\ hist[u][m + 1].now - hist[u][1].now <= RATE_LIMITS.TIMEFRAME
        /\ userRateLimits[u].cooldownUntil = hist[u][m + 1].now + RATE_LIMITS.COOLDOWN

\* C3: a check of a tracked identity made while now < cooldownUntil returns
\* Reject and leaves the identity's timestamps and cooldownUntil as they were.
C3_CooldownRejectsUnchanged ==
    [][\A u \in Users :
          (Checked(u) /\ CoolingDown(u)) =>
              /\ Rejected(u)
              /\ userRateLimits'[u] = userRateLimits[u]]_vars

\* The last check of an identity was made during its cooldown, when every
\* entry of its window was already stale.
C3_Witness ==
    \E u \in Users :
        /\ Tracked(u)
        /\ Len(hist[u]) >= 3
        /\ Last(hist[u]).limited
        /\ Last(hist[u]).now < userRateLimits[u].cooldownUntil
        /\ Last(hist[u]).now > hist[u][Len(hist[u]) - 1].now
        /\ hist[u][Len(hist[u]) - 1].limited
        /\ \A i \in 1..Len(userRateLimits[u].timestamps) :
              Last(hist[u]).now - userRateLimits[u].timestamps[i] > RATE_LIMITS.TIMEFRAME

\* The identity's last check was rejected and its cooldown is over: the check
\* made now is the first one with now >= cooldownUntil since the cooldown was
\* armed.
CooldownOver(u) ==
    /\ Tracked(u)
    /\ Last(hist[u]).limited
    /\ now >= userRateLimits[u].cooldownUntil

\* C4 as stated: for every configuration, the first check with
\* now >= cooldownUntil of an identity whose cooldown was armed returns Admit
\* and leaves timestamps = <<now>>.
C4_Original ==
    [][\A u \in Users :
          (Checked(u) /\ CooldownOver(u)) =>
              /\ ~Rejected(u)
              /\ userRateLimits'[u].timestamps = <<now>>]_vars

\* C4 (amended): for every configuration with COOLDOWN > TIMEFRAME, the first
\* check with now >= cooldownUntil (now = cooldownUntil included) of an
\* identity whose cooldown was armed returns Admit and leaves
\* timestamps = <<now>>.
C4_AdmitAfterCooldown ==
    [][\A u \in Users :
          (Checked(u) /\ CooldownOver(u)
                /\ RATE_LIMITS.COOLDOWN > RATE_LIMITS.TIMEFRAME) =>
              /\ ~Rejected(u)
              /\ userRateLimits'[u].timestamps = <<now>>]_vars

\* An identity was rejected, then admitted at the very instant cooldownUntil,
\* under a configuration whose cooldown is longer than its window.
C4_Witness ==
    \E u \in Users :
        /\ RATE_LIMITS.COOLDOWN > RATE_LIMITS.TIMEFRAME
        /\ Len(hist[u]) >= 3
        /\ hist[u][Len(hist[u]) - 1].limited
        /\ ~Last(hist[u]).limited
        /\ Last(hist[u]).now = userRateLimits[u].cooldownUntil
        /\ userRateLimits[u].timestamps = <<Last(hist[u]).now>>

\* The times of the checks of an identity, oldest first.
Times(u) == [i \in 1..Len(hist[u]) |-> hist[u][i].now]

Burst == <<0, 10, 20, 30, 40>>

\* C5: a check of a tracked identity outside cooldown is rejected exactly when
\* MAX_MESSAGES admitted checks are at most TIMEFRAME old (an entry exactly
\* TIMEFRAME old counts, an older one does not).  Under the strict profile,
\* after admitted checks at 0, 10, 20, 30, 40 a sixth check at 61000 is
\* admitted and one at 59000 is rejected; one at 60000 is rejected (the entry
\* 0 is exactly TIMEFRAME old) and one at 60010 is admitted with the entry 0
\* pruned.
C5_WindowEdge ==
    /\ [][\A u \in Users :
            (Checked(u) /\ Tracked(u) /\ ~CoolingDown(u)) =>
                (Rejected(u) <=> AdmitsInWindow(u, now) >= RATE_LIMITS.MAX_MESSAGES)]_vars
    /\ [](\A u \in Users :
            (Len(hist[u]) = 6 /\ SubSeq(Times(u), 1, 5) = Burst) =>
                /\ \A i \in 1..5 : ~hist[u][i].limited
                /\ hist[u][6].now = 61000 => ~hist[u][6].limited
                /\ hist[u][6].now = 59000 => hist[u][6].limited
                /\ hist[u][6].now = 60000 => hist[u][6].limited
                /\ hist[u][6].now = 60010 =>
                      /\ ~hist[u][6].limited
                      /\ userRateLimits[u].timestamps = <<10, 20, 30, 40, 60010>>)

\* Under the strict profile, the sixth check at 61000 after the burst was
\* admitted.
C5_Witness ==
    /\ RATE_LIMITS = StrictProfile
    /\ Times("u1") = Burst \o <<61000>>
    /\ ~hist["u1"][6].limited

\* C6 as stated: after every completed check of an identity, whatever branch
\* it took, its timestamps hold no entry older than TIMEFRAME at the time of
\* that check.
C6_Original ==
    \A u \in Users :
        Tracked(u) =>
            \A i \in 1..Len(userRateLimits[u].timestamps) :
                Last(hist[u]).now - userRateLimits[u].timestamps[i]
                    <= RATE_LIMITS.TIMEFRAME

\* C6 (amended): after every completed check of an identity that took the
\* first-event, window-trigger or admit branch, its timestamps hold no entry
\* older than TIMEFRAME at the time of that check (a check rejected because
\* of an active cooldown leaves timestamps as they were).
C6_PrunedOutsideCooldown ==
    [][\A u \in Users :
          (Checked(u) /\ ~CoolingDown(u)) =>
              \A i \in 1..Len(userRateLimits'[u].timestamps) :
                  now - userRateLimits'[u].timestamps[i] <= RATE_LIMITS.TIMEFRAME]_vars

\* A check that was rejected by the window trigger after pruning: the
\* identity made more admitted checks than MAX_MESSAGES, its last check was
\* rejected outside cooldown and its timestamps are full and fresh.
C6_Witness ==
    \E u \in Users :
        /\ Tracked(u)
        /\ Len(Admits(u)) > RATE_LIMITS.MAX_MESSAGES
        /\ Last(hist[u]).limited
        /\ Len(userRateLimits[u].timestamps) = RATE_LIMITS.MAX_MESSAGES
        /\ userRateLimits[u].cooldownUntil = Last(hist[u]).now + RATE_LIMITS.COOLDOWN
        /\ \A i \in 1..(Len(hist[u]) - 1) : ~hist[u][i].limited

\* The entries of the identity's timestamps that a check at time t keeps.
FreshEntries(u, t) ==
    {i \in 1..Len(userRateLimits[u].timestamps) :
        t - userRateLimits[u].timestamps[i] <= RATE_LIMITS.TIMEFRAME}

\* C7: in every reachable state every tracked identity holds at most
\* MAX_MESSAGES timestamps; a check appends to an existing record only when
\* fewer than MAX_MESSAGES entries survive the pruning, and a rejected check
\* appends nothing.
C7_LengthBound ==
    /\ [](\A u \in Users :
            Tracked(u) => Len(userRateLimits[u].timestamps) <= RATE_LIMITS.MAX_MESSAGES)
    /\ [][\A u \in Users :
            (Checked(u) /\ Tracked(u)) =>
                IF Rejected(u)
                THEN Len(userRateLimits'[u].timestamps) <= Len(userRateLimits[u].timestamps)
                ELSE /\ Cardinality(FreshEntries(u, now)) < RATE_LIMITS.MAX_MESSAGES
                     /\ Len(userRateLimits'[u].timestamps)
                            = Cardinality(FreshEntries(u, now)) + 1]_vars

\* An identity with a full list of at least two timestamps was rejected.
C7_Witness ==
    \E u \in Users :
        /\ Tracked(u)
        /\ RATE_LIMITS.MAX_MESSAGES >= 2
        /\ Len(userRateLimits[u].timestamps) = RATE_LIMITS.MAX_MESSAGES
        /\ Last(hist[u]).limited

\* C8: an identity is tracked exactly when it was checked; its first check
\* returned Admit, and right after it the record is timestamps = <<now>>,
\* cooldownUntil = 0, whatever the records of the other identities.
C8_FirstCheckAdmits ==
    \A u \in Users :
        /\ Tracked(u) <=> hist[u] # <<>>
        /\ hist[u] # <<>> => ~hist[u][1].limited
        /\ Len(hist[u]) = 1 =>
              userRateLimits[u] =
                  [timestamps |-> <<hist[u][1].now>>, cooldownUntil |-> 0]

\* An identity made its first check, after time 0, while another identity was
\* in cooldown.
C8_Witness ==
    \E u, v \in Users :
        /\ u # v
        /\ Len(hist[u]) = 1
        /\ hist[u][1].now > 0
        /\ CoolingDown(v)
        /\ hist[u][1].now >= Last(hist[v]).now

\* C9: the n-th check of an identity, for n <= MAX_MESSAGES, is admitted
\* whenever it is at most TIMEFRAME after the identity's first check.
C9_BurstWithinBudget ==
    \A u \in Users :
        \A n \in 1..Len(hist[u]) :
            (n <= RATE_LIMITS.MAX_MESSAGES
                /\ hist[u][n].now - hist[u][1].now <= RATE_LIMITS.TIMEFRAME)
            => ~hist[u][n].limited

\* An identity made MAX_MESSAGES >= 2 checks at different times of one
\* window.
C9_Witness ==
    \E u \in Users :
        LET m == RATE_LIMITS.MAX_MESSAGES IN
        /\ m >= 2
        /\ Len(hist[u]) = m
        /\ hist[u][m].now > hist[u][1].now
        /\ hist[u][m].now - hist[u][1].now <= RATE_LIMITS.TIMEFRAME

\* The limiter run on the checks of one identity alone, from an empty map:
\* the map it ends with and the values it returned.
RECURSIVE SoloRun(_, _, _)
SoloRun(cfg, u, times) ==
    IF times = <<>>
    THEN [limits |-> <<>>, rets |-> <<>>]
    ELSE LET before == SoloRun(cfg, u, SubSeq(times, 1, Len(times) - 1))
             r == isUserRateLimited(cfg, before.limits, u, Last(times))
         IN [limits |-> r.limits, rets |-> Append(before.rets, r.ret)]

Verdicts(u) == [i \in 1..Len(hist[u]) |-> hist[u][i].limited]

\* C10: a check of one identity leaves the record of every other identity as
\* it was, and the verdicts and the record of an identity are those of the
\* limiter run on that identity's checks alone, whatever checks of other
\* identities were interleaved with them.
C10_Independence ==
    /\ [][\A u, v \in Users :
            (Checked(u) /\ v # u) =>
                /\ Tracked(v)' <=> Tracked(v)
                /\ Tracked(v) => userRateLimits'[v] = userRateLimits[v]]_vars
    /\ [](\A u \in Users :
            LET solo == SoloRun(RATE_LIMITS, u, Times(u)) IN
            /\ solo.rets = Verdicts(u)
            /\ Tracked(u) <=> u \in DOMAIN solo.limits
            /\ Tracked(u) => solo.limits[u] = userRateLimits[u])

\* Identity a exhausted its budget and is in cooldown; identity b was checked
\* before a's first check and again, and admitted, after a's rejection.
C10_Witness ==
    \E a, b \in Users :
        /\ a # b
        /\ CoolingDown(a)
        /\ Len(hist[b]) >= 2
        /\ hist[b][1].now < hist[a][1].now
        /\ ~Last(hist[b]).limited
        /\ Last(hist[b]).now > Last(hist[a]).now

\* The checks of the cooldown scenario and the verdicts expected of them
\* (TRUE: rejected).
ScenarioChecked == <<0, 1, 2, 3, 4, 5, 150000, 300006>>

ScenarioVerdicts == <<FALSE, FALSE, FALSE, FALSE, FALSE, TRUE, TRUE, FALSE>>

\* C11: under the strict profile, checks of one identity at 0, 1, 2, 3, 4 are
\* admitted; the check at 5 is rejected and sets cooldownUntil = 300005; the
\* check at 150000 is rejected and leaves cooldownUntil = 300005; the check
\* at 300006 is admitted and leaves timestamps = <<300006>>.
C11_CooldownScenario ==
    \A u \in Users :
        LET n == Len(hist[u]) IN
        (n >= 1 /\ n <= 8 /\ Times(u) = SubSeq(ScenarioChecked, 1, n)) =>
            /\ Verdicts(u) = SubSeq(ScenarioVerdicts, 1, n)
            /\ n \in {6, 7} => userRateLimits[u].cooldownUntil = 300005
            /\ n = 8 => userRateLimits[u].timestamps = <<300006>>

\* The whole scenario was run.
C11_Witness ==
    /\ RATE_LIMITS = StrictProfile
    /\ Times("u1") = ScenarioChecked
    /\ Verdicts("u1") = ScenarioVerdicts
    /\ userRateLimits["u1"].timestamps = <<300006>>

\* The latest check of the identity was rejected / admitted.
LockedOut(u) == hist[u] # <<>> /\ Last(hist[u]).limited

Admitted(u) == hist[u] # <<>> /\ ~Last(hist[u]).limited

\* C12: for every configuration, when time keeps advancing and the identity
\* keeps sending checks, every rejected check of the identity is followed by
\* an admitted one: no state locks an identity out for ever.
C12_NoPermanentLockout ==
    \A u \in ProfileUsers : LockedOut(u) ~> Admitted(u)

\* An identity whose cooldown was armed has been admitted again, after the
\* clock reached MaxNow.
C12_Witness ==
    \E u \in ProfileUsers :
        /\ Admitted(u)
        /\ now = MaxNow
        /\ userRateLimits[u].cooldownUntil > 0
        /\ userRateLimits[u].cooldownUntil <= Last(hist[u]).now
        /\ Last(hist[u]).now < now

\* The record of the identity holds nothing a later check can use: its
\* cooldown is over and every timestamp is older than TIMEFRAME.
Expired(u) ==
    /\ Tracked(u)
    /\ userRateLimits[u].cooldownUntil <= now
    /\ \A i \in 1..Len(userRateLimits[u].timestamps) :
          now - userRateLimits[u].timestamps[i] > RATE_LIMITS.TIMEFRAME

\* C13: the map is bounded whatever the number of identities ever checked:
\* fully expired records do not accumulate, so the map never holds an
\* expired record for every one of the identities.
C13_BoundedMemory ==
    Cardinality({u \in Users : Expired(u)}) < Cardinality(Users)

\* The positions of the handler behind the check: the awaits that lead to and
\* include messageManager.handleMessage.
Downstream == {"authorize", "recommender", "handleMessage"}

\* This step is a call of isUserRateLimited made by a handler leaving idle.
CheckedBy(h, u) == pc[h] = "idle" /\ Checked(u)

\* C14: a message whose check was rejected is never at or on the way to
\* handleMessage, and the step that rejects it starts the throttling reply; a
\* handler is downstream only for a message whose own check, made in the step
\* that took the handler out of idle, was admitted; and the verdict of a
\* message in flight never changes, whatever the other handlers check.
C14_CheckGuardsHandling ==
    [][/\ \A h \in Handlers :
            /\ pc'[h] \in Downstream =>
                  /\ verdict'[h] = "admit"
                  /\ \/ pc[h] \in Downstream
                     \/ \E u \in Users : CheckedBy(h, u) /\ ~Rejected(u)
            /\ verdict'[h] = "reject" => pc'[h] \in {"reply", "errorReply"}
            /\ pc'[h] = "reply" =>
                  /\ verdict'[h] = "reject"
                  /\ \/ pc[h] = "reply"
                     \/ \E u \in Users : CheckedBy(h, u) /\ Rejected(u)
            /\ pc[h] # "idle" => verdict'[h] \in {verdict[h], "none"}
       /\ \A u \in Users :
            (Checked(u) /\ Rejected(u)) =>
                \E h \in Handlers : pc[h] = "idle" /\ pc'[h] = "reply"
       /\ \A u \in Users :
            (Checked(u) /\ ~Rejected(u)) =>
                \E h \in Handlers : pc[h] = "idle" /\ pc'[h] = "authorize"]_vars

\* One handler is about to pass an admitted message to handleMessage while
\* the other is sending the throttling reply for a rejected one.
C14_Witness ==
    \E h, g \in Handlers :
        /\ pc[h] = "handleMessage" /\ verdict[h] = "admit"
        /\ pc[g] = "reply" /\ verdict[g] = "reject"

\* The positions a handler can be at; a handler that let an error escape
\* would be at none of them.
Positions == {"idle", "reply", "errorReply"} \cup Downstream

\* C15: when the throttling reply of a rejected message settles, the handler
\* returns or, only for an error other than 403, goes on to one fallback
\* reply; when the fallback reply settles, whatever its outcome, the handler
\* returns; the handler is never anywhere else, and neither step touches the
\* rate state.
C15_NoticeFailureContained ==
    [][\A h \in Handlers :
          /\ pc'[h] \in Positions
          /\ (verdict[h] = "reject" /\ pc[h] = "reply" /\ pc'[h] # "reply") =>
                /\ pc'[h] \in {"idle", "errorReply"}
                /\ pc'[h] = "errorReply" => caught'[h] = "err"
                /\ userRateLimits' = userRateLimits
          /\ (verdict[h] = "reject" /\ pc[h] = "errorReply" /\ pc'[h] # "errorReply") =>
                /\ pc'[h] = "idle"
                /\ userRateLimits' = userRateLimits
          /\ pc'[h] = "errorReply" => caught'[h] = "err" /\ pc[h] # "idle"]_vars

\* The throttling reply of a rejected message failed with an error other than
\* 403 and the fallback reply is being sent.
C15_Witness ==
    \E h \in Handlers :
        pc[h] = "errorReply" /\ verdict[h] = "reject" /\ caught[h] = "err"

\* The list is in non-decreasing order.
Sorted(timestamps) ==
    \A i, j \in 1..Len(timestamps) : i < j => timestamps[i] <= timestamps[j]

\* The list is what remains of the other when a prefix of it is removed.
IsSuffix(timestamps, of) ==
    \E k \in 0..Len(of) : timestamps = SubSeq(of, k + 1, Len(of))

\* The identity's list after this step's check, without the entry that an
\* admitted check appended.
KeptByCheck(u) ==
    LET after == userRateLimits'[u].timestamps IN
    IF Rejected(u) THEN after ELSE SubSeq(after, 1, Len(after) - 1)

\* C16: the clock never goes back, every identity's timestamps are in
\* non-decreasing order in every reachable state, and a check of a tracked
\* identity keeps a suffix of the list it found: what pruning removes is a
\* prefix, and an admitted check adds its own time at the end.
C16_OldestFirst ==
    /\ \A u \in Users : Tracked(u) => Sorted(userRateLimits[u].timestamps)
    /\ [][/\ now' >= now
          /\ \A u \in Users :
               /\ Tracked(u)' => Sorted(userRateLimits'[u].timestamps)
               /\ (Checked(u) /\ Tracked(u)) =>
                     /\ IsSuffix(KeptByCheck(u), userRateLimits[u].timestamps)
                     /\ ~Rejected(u) => Last(userRateLimits'[u].timestamps) = now]_vars

\* The identity's list holds two entries of different times and an earlier
\* admitted check of the identity is no longer in it: a check pruned the
\* front of the list and kept the rest.
C16_Witness ==
    \E u \in Users :
        /\ Tracked(u)
        /\ Len(userRateLimits[u].timestamps) >= 2
        /\ userRateLimits[u].timestamps[1] < userRateLimits[u].timestamps[2]
        /\ \E i \in 1..Len(hist[u]) :
              ~hist[u][i].limited /\ hist[u][i].now < userRateLimits[u].timestamps[1]

\* How many entries of the list carry the time t.
Occurrences(timestamps, t) ==
    Cardinality({i \in 1..Len(timestamps) : timestamps[i] = t})

\* How many checks of the identity made at time t were admitted.
AdmittedAt(u, t) ==
    Cardinality({i \in 1..Len(hist[u]) : ~hist[u][i].limited /\ hist[u][i].now = t})

\* C18: every entry of an identity's timestamps is the time of an admitted
\* check of that identity, each admitted check accounting for at most one
\* entry; a rejected check, in cooldown or at the window trigger, adds none.
C18_RejectsNotRecorded ==
    \A u \in Users :
        /\ Tracked(u) <=> hist[u] # <<>>
        /\ Tracked(u) =>
              /\ Len(userRateLimits[u].timestamps) <= Len(Admits(u))
              /\ \A i \in 1..Len(userRateLimits[u].timestamps) :
                    LET t == userRateLimits[u].timestamps[i] IN
                    Occurrences(userRateLimits[u].timestamps, t) <= AdmittedAt(u, t)

\* The identity was rejected at the window trigger and again during the
\* cooldown, at a time at which none of its checks was admitted, and its list
\* still holds an admitted entry.
C18_Witness ==
    \E u \in Users :
        /\ Tracked(u)
        /\ userRateLimits[u].timestamps # <<>>
        /\ \E i, j \in 1..Len(hist[u]) :
              /\ i < j
              /\ hist[u][i].limited /\ hist[u][j].limited
              /\ hist[u][j].now < userRateLimits[u].cooldownUntil
              /\ AdmittedAt(u, hist[u][i].now) = 0
              /\ AdmittedAt(u, hist[u][j].now) = 0

\* cooldownUntil of the identity in the given map; an identity that has no
\* record yet counts as 0, the value its first check stores.
CooldownUntilIn(limits, u) ==
    IF u \in DOMAIN limits THEN limits[u].cooldownUntil ELSE 0

\* This step's check of u is a window trigger: u is tracked, not in cooldown,
\* and its pruned list holds MAX_MESSAGES entries or more.
WindowTrigger(u) ==
    /\ Checked(u)
    /\ Tracked(u)
    /\ ~CoolingDown(u)
    /\ AdmitsInWindow(u, now) >= RATE_LIMITS.MAX_MESSAGES

\* C19: cooldownUntil of an identity never decreases; it changes only in a
\* step that is a window-trigger check of that identity, which is rejected and
\* sets it to now + COOLDOWN; every admitted check and every check made
\* during the cooldown leaves it as it was.
C19_CooldownFrame ==
    [][\A u \in Users :
          LET before == CooldownUntilIn(userRateLimits, u)
              after == CooldownUntilIn(userRateLimits', u)
          IN /\ after >= before
             /\ after # before => WindowTrigger(u)
             /\ WindowTrigger(u) =>
                   Rejected(u) /\ after = now + RATE_LIMITS.COOLDOWN
             /\ (Checked(u) /\ ~Rejected(u)) => after = before
             /\ (Checked(u) /\ CoolingDown(u)) => after = before]_vars

\* The identity went through a window trigger and a rejection during the
\* cooldown, and its latest check, after the cooldown, was admitted with the
\* old cooldownUntil still in its record.
C19_Witness ==
    \E u \in Users :
        /\ Tracked(u)
        /\ Len(hist[u]) >= 4
        /\ ~Last(hist[u]).limited
        /\ userRateLimits[u].cooldownUntil > 0
        /\ userRateLimits[u].cooldownUntil <= Last(hist[u]).now
        /\ \E i, j \in 1..Len(hist[u]) :
              /\ i < j
              /\ hist[u][i].limited /\ hist[u][j].limited
              /\ hist[u][j].now < userRateLimits[u].cooldownUntil

\* C17: run on the same checks with the same configuration, the permissive
\* copy of the limiter returns at every check what the strict copy returns
\* and leaves the same map of records; the two copies' RATE_LIMITS differ
\* only in MAX_MESSAGES, 5 against 100, with TIMEFRAME 60000 and COOLDOWN
\* 300000 in both.
C17_SameMachine ==
    /\ StrictProfile.MAX_MESSAGES = 5
    /\ PermissiveProfile.MAX_MESSAGES = 100
    /\ StrictProfile.TIMEFRAME = 60000
    /\ StrictProfile.COOLDOWN = 300000
    /\ [PermissiveProfile EXCEPT !.MAX_MESSAGES = StrictProfile.MAX_MESSAGES] = StrictProfile
    /\ [][\A u \in Users :
            Checked(u) =>
                LET permissive ==
                        isUserRateLimitedPermissive(RATE_LIMITS, userRateLimits, u, now)
                IN /\ permissive.ret = Rejected(u)
                   /\ permissive.limits = userRateLimits']_vars

\* One identity is in cooldown after a rejected check while the other's
\* latest check was admitted after an older admitted entry of it was pruned:
\* the two copies went through every branch together.
C17_Witness ==
    \E a, b \in Users :
        /\ a # b
        /\ CoolingDown(a)
        /\ Last(hist[a]).limited
        /\ Tracked(b)
        /\ ~Last(hist[b]).limited
        /\ \E i \in 1..Len(hist[b]) :
              ~hist[b][i].limited /\ hist[b][i].now < userRateLimits[b].timestamps[1]
====
